---- MODULE Spec2Model ----
(***************************************************************************)
(* KitForge: the model analysis pipeline (backend/api/compute_pipeline.py), *)
(* the pricing engine (backend/api/pricing_engine.py), the user store      *)
(* (backend/api/auth.py) and the HTTP endpoints (backend/api/main.py).     *)
(*                                                                         *)
(* Numbers.  The program computes in Python floats and rounds its outputs  *)
(* to two decimals.  The model computes in exact decimal arithmetic on     *)
(* scaled integers:                                                        *)
(*   volume_cm3, surface_area_cm2, mass_g, est_print_time_hours,           *)
(*   material_cost_usd, bounding box extents (mm) : hundredths;            *)
(*   density : hundredths of g/cm3;  cost_per_gram : thousandths of USD;   *)
(*   layer height : hundredths of mm;  infill : percent.                   *)
(* A mesh handle carries the raw values the mesh library reports:          *)
(*   volume in mm3, area in tenths of mm2, extents in thousandths of mm.   *)
(*                                                                         *)
(* round(x, 2) rounds the double x, which lies within a few ulps of the    *)
(* exact decimal value.  Away from a decimal tie (..5 in the third place)  *)
(* both round to the same neighbour.  At a decimal tie the double lies on  *)
(* one side or the other, so the program returns either neighbour: round2  *)
(* takes that side as its argument `up`, and the actions choose it freely. *)
(* The comparisons against the score thresholds are made on the exact      *)
(* values; the input domains hold no value pair for which the double       *)
(* quotient and the exact quotient fall on different sides of a threshold. *)
(***************************************************************************)
EXTENDS Integers, Sequences, FiniteSets

VARIABLES pc, mesh, geometry, quality, complexity_score,
          args, settings, infill_percentage, mass_g, material_cost, print_time,
          files, clients, users, sessions, response

vars == <<pc, mesh, geometry, quality, complexity_score,
          args, settings, infill_percentage, mass_g, material_cost, print_time,
          files, clients, users, sessions, response>>

analysis_vars == <<mesh, geometry, quality, complexity_score>>
pricing_vars == <<args, settings, infill_percentage, mass_g, material_cost, print_time>>
\* The state behind the HTTP endpoints: the upload and output directories, what
\* each client has sent and received, the user store, the tokens issued and
\* the last response of the account endpoints.
service_vars == <<files, clients, users, sessions, response>>

(***************************************************************************)
(* Bounds of the input domains.                                            *)
(***************************************************************************)
MaxVolK == 2
MaxFaceK == 4
MaxShells == 4
MaxAreaK == 5
MaxTinyVol == 3

(***************************************************************************)
(* Arithmetic helpers: Python's max, min and round(x, 2).                  *)
(***************************************************************************)
Max2(a, b) == IF a >= b THEN a ELSE b
Min2(a, b) == IF a <= b THEN a ELSE b
MaxOf(t) == Max2(t[1], Max2(t[2], t[3]))
MinOf(t) == Min2(t[1], Min2(t[2], t[3]))
Abs(x) == IF x >= 0 THEN x ELSE -x

\* num/den rounded to the nearest integer (den > 0); at a tie, upwards iff up.
round2(num, den, up) ==
    LET q == num \div den
        r == num % den
    IN  IF 2 * r > den THEN q + 1
        ELSE IF 2 * r < den THEN q
        ELSE IF up THEN q + 1 ELSE q

\* The sides of the five values extract_geometry rounds.
GeometryTies == [1..5 -> BOOLEAN]

(***************************************************************************)
(* Mesh handles: what trimesh reports for a loaded mesh.                   *)
(***************************************************************************)
\* trimesh.creation.box(extents): a closed single-shell box, two triangles a face.
BoxMesh(x, y, z, faces) ==
    [faces |-> faces,
     volume |-> x * y * z,
     extents |-> <<1000 * x, 1000 * y, 1000 * z>>,
     area |-> 10 * 2 * (x * y + x * z + y * z),
     is_watertight |-> TRUE,
     shells |-> 1]

test_part == BoxMesh(50, 30, 20, 12)

MeshVolumes == {1000 * k + 4 : k \in 0..MaxVolK} \cup {-30000, 96, 30000, 45200}
MeshFaces == {500 * k : k \in 0..MaxFaceK} \cup {12, 1001}
MeshShells == 0..MaxShells
MeshAreas == {12500 * k + 4 : k \in 0..MaxAreaK} \cup {62000}
MeshExtents ==
    { <<50000, 30000, 20000>>,
      <<120504, 45296, 30201>>,
      <<100004, 20001, 19998>>,
      <<100004, 10004, 14000>>,
      <<20000, 20000, 210000>>,
      <<0, 10000, 10000>>,
      <<160000, 40000, 30000>> }

Meshes ==
    [faces : MeshFaces, volume : MeshVolumes, extents : MeshExtents,
     area : MeshAreas, is_watertight : BOOLEAN, shells : MeshShells]

(***************************************************************************)
(* ModelAnalyzer                                                           *)
(***************************************************************************)
\* Mutant: the surface area is reported in mm2, the division by 100 forgotten.
extract_geometry_area_mm2(m, up) ==
    [volume_cm3 |-> round2(m.volume, 10, up[1]),
     bounding_box |-> [i \in 1..3 |-> round2(m.extents[i], 10, up[i + 1])],
     surface_area_cm2 |-> round2(100 * m.area, 10, up[5])]

extract_geometry(m, up) ==
    [volume_cm3 |-> round2(m.volume, 10, up[1]),
     bounding_box |-> [i \in 1..3 |-> round2(m.extents[i], 10, up[i + 1])],
     surface_area_cm2 |-> round2(m.area, 10, up[5])]

\* vertex_count is reported too; nothing in the pipeline reads it.
analyze_mesh_quality(m) ==
    [triangle_count |-> m.faces,
     is_watertight |-> m.is_watertight,
     shell_count |-> m.shells]

\* Mutant: the density tiers are earned at the threshold (>= for >).
TriDensityPoints_at_threshold(faces, volume_cm3) ==
    LET den == Max2(volume_cm3, 100)
    IN  IF 100 * faces >= 1000 * den THEN 2
        ELSE IF 100 * faces >= 500 * den THEN 1
        ELSE 0

\* tri_density = len(mesh.faces) / max(volume_cm3, 1)
TriDensityPoints(faces, volume_cm3) ==
    LET den == Max2(volume_cm3, 100)
    IN  IF 100 * faces > 1000 * den THEN 2
        ELSE IF 100 * faces > 500 * den THEN 1
        ELSE 0

\* Mutant: many shells weigh 3, so that the five contributions can sum to 11.
ShellPoints_heavy(shell_count) ==
    IF shell_count > 3 THEN 3
    ELSE IF shell_count > 1 THEN 1
    ELSE 0

ShellPoints(shell_count) ==
    IF shell_count > 3 THEN 2
    ELSE IF shell_count > 1 THEN 1
    ELSE 0

\* Mutant: the second comparison is turned around (< 5 for > 5).
AspectPoints_flipped(bbox) ==
    LET max_dim == MaxOf(bbox)
        min_dim == MinOf(bbox)
        den == Max2(min_dim, 10)
    IN  IF max_dim > 10 * den THEN 2
        ELSE IF max_dim < 5 * den THEN 1
        ELSE 0

\* aspect_ratio = max_dim / max(min_dim, 0.1)
AspectPoints(bbox) ==
    LET max_dim == MaxOf(bbox)
        min_dim == MinOf(bbox)
        den == Max2(min_dim, 10)
    IN  IF max_dim > 10 * den THEN 2
        ELSE IF max_dim > 5 * den THEN 1
        ELSE 0

\* Mutant: a watertight mesh is rewarded (score -= 2) instead of a leaking one charged.
WatertightPoints_rewarded(is_watertight) == IF is_watertight THEN -2 ELSE 0

WatertightPoints(is_watertight) == IF ~is_watertight THEN 2 ELSE 0

\* Mutant: the top surface/volume tier weighs 3.
SaVolPoints_heavy(surface_area_cm2, volume_cm3) ==
    LET den == Max2(volume_cm3, 10)
    IN  IF surface_area_cm2 > 50 * den THEN 3
        ELSE IF surface_area_cm2 > 25 * den THEN 1
        ELSE 0

\* sa_vol_ratio = surface_area_cm2 / max(volume_cm3, 0.1)
SaVolPoints(surface_area_cm2, volume_cm3) ==
    LET den == Max2(volume_cm3, 10)
    IN  IF surface_area_cm2 > 50 * den THEN 2
        ELSE IF surface_area_cm2 > 25 * den THEN 1
        ELSE 0

ScoreCap == 10

compute_complexity_score(m, g) ==
    LET s1 == 0 + TriDensityPoints(m.faces, g.volume_cm3)
        s2 == s1 + ShellPoints(m.shells)
        s3 == s2 + AspectPoints(g.bounding_box)
        s4 == s3 + WatertightPoints(m.is_watertight)
        s5 == s4 + SaVolPoints(g.surface_area_cm2, g.volume_cm3)
    IN  Min2(s5, ScoreCap)

(***************************************************************************)
(* PricingEngine                                                           *)
(***************************************************************************)
default_density == 124
default_cost_per_gram == 20
fdm_print_speed == 20

materials ==
    [m \in {"PLA", "ABS", "PETG", "TPU", "Nylon", "ASA"} |->
        CASE m = "PLA"   -> [density |-> 124, cost_per_gram |-> 20]
          [] m = "ABS"   -> [density |-> 104, cost_per_gram |-> 25]
          [] m = "PETG"  -> [density |-> 127, cost_per_gram |-> 30]
          [] m = "TPU"   -> [density |-> 121, cost_per_gram |-> 50]
          [] m = "Nylon" -> [density |-> 114, cost_per_gram |-> 60]
          [] m = "ASA"   -> [density |-> 107, cost_per_gram |-> 35]]

\* Mutant: the table is searched without regard to case.
MaterialDensity_ignore_case(material) ==
    IF material = "abs" THEN materials["ABS"].density
    ELSE IF material \in DOMAIN materials THEN materials[material].density
    ELSE default_density

MaterialDensity(material) ==
    IF material \in DOMAIN materials
    THEN materials[material].density
    ELSE default_density

\* Mutant: no fallback, an unknown material costs nothing.
MaterialCostPerGram_no_default(material) ==
    IF material \in DOMAIN materials
    THEN materials[material].cost_per_gram
    ELSE 0

MaterialCostPerGram(material) ==
    IF material \in DOMAIN materials
    THEN materials[material].cost_per_gram
    ELSE default_cost_per_gram

\* Mutant: density * 0.3 + volume * density * 0.7 * infill / 100, the solid
\* share not multiplied by the volume.
UnroundedMass_shell_unscaled(volume_cm3, material, infill) ==
    MaterialDensity(material) * 30000 + volume_cm3 * MaterialDensity(material) * 7 * infill

\* volume * density * (0.3 + 0.7 * infill / 100), in units of 10^-7 g.
UnroundedMass(volume_cm3, material, infill) ==
    volume_cm3 * MaterialDensity(material) * (300 + 7 * infill)

\* Mutant: the mass of the solid part, volume x density, whatever the infill.
calculate_mass_solid(volume_cm3, material, infill, up) ==
    round2(volume_cm3 * MaterialDensity(material) * 1000, 100000, up)

calculate_mass(volume_cm3, material, infill, up) ==
    round2(UnroundedMass(volume_cm3, material, infill), 100000, up)

\* mass * cost_per_gram, in units of 10^-5 USD.
UnroundedCost(mass, material) == mass * MaterialCostPerGram(material)

calculate_material_cost(mass, material, up) ==
    round2(UnroundedCost(mass, material), 1000, up)

\* Mutant: 1 + score / 5.
ComplexityMultiplier_fifths(score) == 10 + 2 * score

\* 1 + score / 10, in tenths.
ComplexityMultiplier(score) == 10 + score

\* Mutant: 0.8 - (infill / 100) * 0.4.
InfillMultiplier_minus(infill) == 200 - infill

\* 0.8 + (infill / 100) * 0.4, in units of 1/250.
InfillMultiplier(infill) == 200 + infill

\* base_time * complexity_multiplier * infill_multiplier,
\* in units of 1 / (250000 * fdm_print_speed) hours.
UnroundedTime(volume_cm3, score, infill) ==
    volume_cm3 * ComplexityMultiplier(score) * InfillMultiplier(infill)

estimate_print_time(volume_cm3, score, infill, up) ==
    round2(UnroundedTime(volume_cm3, score, infill), 2500 * fdm_print_speed, up)

\* Mutant: the size test of the infill rule is max_dim >= 200.
get_recommended_settings_infill_geq(score, bounding_box) ==
    LET max_dim == MaxOf(bounding_box)
        xy_max == Max2(bounding_box[1], bounding_box[2])
    IN  [layer_height_mm |-> IF score >= 7 THEN 12 ELSE IF score >= 4 THEN 16 ELSE 20,
         infill_percentage |-> IF max_dim >= 20000 \/ score >= 7 THEN 25 ELSE 20,
         supports_needed |-> bounding_box[3] > 2 * Max2(xy_max, 100) \/ score >= 6,
         brim_recommended |-> max_dim > 15000,
         print_speed_mm_s |-> IF score >= 6 THEN 50 ELSE 60]

\* Mutant: aspect_ratio = z_height / xy_max, without the floor of 1 mm.
get_recommended_settings_no_floor(score, bounding_box) ==
    LET max_dim == MaxOf(bounding_box)
        xy_max == Max2(bounding_box[1], bounding_box[2])
    IN  [layer_height_mm |-> IF score >= 7 THEN 12 ELSE IF score >= 4 THEN 16 ELSE 20,
         infill_percentage |-> IF max_dim > 20000 \/ score >= 7 THEN 25 ELSE 20,
         supports_needed |-> bounding_box[3] > 2 * xy_max \/ score >= 6,
         brim_recommended |-> max_dim > 15000,
         print_speed_mm_s |-> IF score >= 6 THEN 50 ELSE 60]

\* Mutant: supports are tied to the score from 7 on, not from 6.
get_recommended_settings_supports_at_7(score, bounding_box) ==
    LET max_dim == MaxOf(bounding_box)
        xy_max == Max2(bounding_box[1], bounding_box[2])
    IN  [layer_height_mm |-> IF score >= 7 THEN 12 ELSE IF score >= 4 THEN 16 ELSE 20,
         infill_percentage |-> IF max_dim > 20000 \/ score >= 7 THEN 25 ELSE 20,
         supports_needed |-> bounding_box[3] > 2 * Max2(xy_max, 100) \/ score >= 7,
         brim_recommended |-> max_dim > 15000,
         print_speed_mm_s |-> IF score >= 6 THEN 50 ELSE 60]

get_recommended_settings(score, bounding_box) ==
    LET layer_height == IF score >= 7 THEN 12
                        ELSE IF score >= 4 THEN 16
                        ELSE 20
        max_dim == MaxOf(bounding_box)
        infill == IF max_dim > 20000 \/ score >= 7 THEN 25 ELSE 20
        z_height == bounding_box[3]
        xy_max == Max2(bounding_box[1], bounding_box[2])
        \* aspect_ratio = z_height / max(xy_max, 1)
        supports_needed == z_height > 2 * Max2(xy_max, 100) \/ score >= 6
    IN  [layer_height_mm |-> layer_height,
         infill_percentage |-> infill,
         supports_needed |-> supports_needed,
         brim_recommended |-> max_dim > 15000,
         print_speed_mm_s |-> IF score >= 6 THEN 50 ELSE 60]

(***************************************************************************)
(* Callers' arguments of calculate_full_pricing.  An optional argument is  *)
(* a sequence of length at most one: << >> is None.                        *)
(***************************************************************************)
None == << >>
Some(x) == <<x>>

ArgVolumes == 0..MaxTinyVol \cup {-100, 50, 3000, 4520}
ArgScores == 0..ScoreCap
ArgBoxes ==
    { <<5000, 3000, 2000>>,
      <<12050, 4530, 3020>>,
      <<2000, 2000, 21000>>,
      <<16000, 4000, 3000>>,
      <<20000, 4000, 3000>>,
      <<2000, 1000, 4000>>,
      <<50, 50, 150>>,
      <<50, 50, 250>> }
ArgMaterials == DOMAIN materials \cup {"abs", "Resin"}
ArgInfills == {None} \cup {Some(i) : i \in {0, 1, 20, 25, 50, 99, 100}}

PricingArgs ==
    [volume_cm3 : ArgVolumes, complexity_score : ArgScores,
     bounding_box : ArgBoxes, material : ArgMaterials,
     infill_percentage : ArgInfills]

NoGeometry == [volume_cm3 |-> 0, bounding_box |-> <<0, 0, 0>>, surface_area_cm2 |-> 0]
NoQuality == [triangle_count |-> 0, is_watertight |-> FALSE, shell_count |-> 0]
NoArgs == [volume_cm3 |-> 0, complexity_score |-> 0, bounding_box |-> <<0, 0, 0>>,
           material |-> "PLA", infill_percentage |-> None]
NoSettings == [layer_height_mm |-> 0, infill_percentage |-> 0, supports_needed |-> FALSE,
               brim_recommended |-> FALSE, print_speed_mm_s |-> 0]
NoMesh == [faces |-> 0, volume |-> 0, extents |-> <<0, 0, 0>>, area |-> 0,
           is_watertight |-> FALSE, shells |-> 0]

(***************************************************************************)
(* calculate_full_pricing as one call: the three rounding sides are up[1]  *)
(* (mass), up[2] (cost) and up[3] (time).                                  *)
(***************************************************************************)
PricingTies == [1..3 -> BOOLEAN]

calculate_full_pricing(volume_cm3, score, bounding_box, material, infill_arg, up) ==
    LET recommended == get_recommended_settings(score, bounding_box)
        infill == IF infill_arg = None
                  THEN recommended.infill_percentage
                  ELSE infill_arg[1]
        mass == calculate_mass(volume_cm3, material, infill, up[1])
    IN  [mass_g |-> mass,
         material_cost_usd |-> calculate_material_cost(mass, material, up[2]),
         est_print_time_hours |-> estimate_print_time(volume_cm3, score, infill, up[3]),
         recommended_settings |-> recommended,
         material_used |-> material]

(***************************************************************************)
(* Files.  A path is the sequence of the pieces it is formatted from; a    *)
(* file's content is named by an identifier, which also stands for its     *)
(* SHA-256 digest (distinct contents, distinct digests; the 16-digit       *)
(* prefix used in the preview's name is taken to be as distinct).          *)
(***************************************************************************)
UPLOAD_DIR == "./uploads"
OUTPUT_DIR == "./output"

supported_formats == {".stl", ".3mf", ".obj", ".ply"}

\* str.lower() on the suffixes of the domain.
Lower(suffix) == IF suffix = ".STL" THEN ".stl" ELSE suffix

\* Path(p).suffix
Suffix(path) == path[Len(path)]

\* UPLOAD_DIR / f"{username}_{filename}"
UploadPath(username, filename) == <<UPLOAD_DIR, username, "_">> \o filename

\* f"{output_dir}/{file_hash[:16]}_preview.png"
PreviewPath(file_hash) == <<OUTPUT_DIR, file_hash, "_preview", ".png">>

Filenames == { <<"part", ".stl">>, <<"part", ".STL">>, <<"notes", ".txt">> }

\* What trimesh.load makes of a mesh file's content.
MeshOf ==
    [content \in {"box", "cube", "flat", "inverted"} |->
        CASE content = "box" -> test_part
          [] content = "cube" -> BoxMesh(20, 20, 20, 12)
          [] content = "flat" ->
                \* a 10 x 10 mm square of two triangles: no volume
                [faces |-> 2, volume |-> 0, extents |-> <<10000, 10000, 0>>,
                 area |-> 1000, is_watertight |-> FALSE, shells |-> 1]
          [] content = "inverted" ->
                \* the 50 x 30 x 20 box with its faces wound inwards
                [faces |-> 12, volume |-> -30000, extents |-> <<50000, 30000, 20000>>,
                 area |-> 62000, is_watertight |-> TRUE, shells |-> 1] ]

\* The contents a client uploads: the four meshes and a file that is no mesh.
FileContents == DOMAIN MeshOf \cup {"garbage"}
\* The bytes scene.save_image returns.
PngContent == "png"
Absent == "absent"

ApiUsers == {"demo", "ann"}
Clients == {"c1", "c2"}

Paths ==
    {UploadPath(u, f) : u \in ApiUsers, f \in {g \in Filenames : Lower(Suffix(g)) \in supported_formats}}
        \cup {PreviewPath(h) : h \in DOMAIN MeshOf}

NoFiles == [p \in Paths |-> Absent]

\* load_model: trimesh.load on the path; any failure becomes a ValueError.
\* Neither the suffix nor the volume of the mesh is looked at.
load_model(file_path, fs) ==
    IF fs[file_path] \in DOMAIN MeshOf
    THEN [raised |-> FALSE, mesh |-> MeshOf[fs[file_path]]]
    ELSE [raised |-> TRUE, mesh |-> NoMesh]

compute_file_hash(file_path, fs) == fs[file_path]

\* Mutant: a failed rendering is re-raised after the warning.
generate_preview_image_reraise(m, output_path, renders) ==
    [path |-> IF renders THEN Some(output_path) ELSE None,
     warned |-> ~renders,
     raised |-> ~renders]

\* generate_preview_image: the path when the scene renders and the image is
\* written; on any exception a warning is printed and None returned.
generate_preview_image(m, output_path, renders) ==
    [path |-> IF renders THEN Some(output_path) ELSE None,
     warned |-> ~renders,
     raised |-> FALSE]

NoAnalyzerResult ==
    [raised |-> TRUE, warned |-> FALSE, file_hash |-> "", geometry |-> NoGeometry,
     quality |-> NoQuality, complexity_score |-> 0, preview_image_path |-> None]

\* ModelAnalyzer.analyze_model with an output directory.
analyze_model(file_path, fs, renders, up) ==
    LET loaded == load_model(file_path, fs)
        m == loaded.mesh
        g == extract_geometry(m, up)
        file_hash == compute_file_hash(file_path, fs)
        preview == generate_preview_image(m, PreviewPath(file_hash), renders)
    IN  IF loaded.raised THEN NoAnalyzerResult
        ELSE IF preview.raised THEN [NoAnalyzerResult EXCEPT !.warned = preview.warned]
        ELSE [raised |-> FALSE,
              warned |-> preview.warned,
              file_hash |-> file_hash,
              geometry |-> g,
              quality |-> analyze_mesh_quality(m),
              complexity_score |-> compute_complexity_score(m, g),
              preview_image_path |-> preview.path]

\* The response of POST /analyze, with what the handler did on the way:
\* load_attempted (analyzer.load_model was called on file_path) and warned (the
\* renderer's warning was printed).
NoAnalysis ==
    [status |-> 0, file_path |-> << >>, load_attempted |-> FALSE, warned |-> FALSE,
     file_hash |-> "", volume_cm3 |-> 0, surface_area_cm2 |-> 0,
     bounding_box |-> <<0, 0, 0>>, mass_g |-> 0, triangle_count |-> 0,
     is_watertight |-> FALSE, shell_count |-> 0, complexity_score |-> 0,
     est_material_cost |-> 0, est_print_time_hours |-> 0,
     recommended_layer_height |-> 0, recommended_infill |-> 0,
     preview_image_path |-> None]

AnalyzeResponse(file_path, fs, renders, gup, pup) ==
    IF fs[file_path] = Absent
    THEN [NoAnalysis EXCEPT !.status = 404, !.file_path = file_path]
    ELSE
        LET analysis == analyze_model(file_path, fs, renders, gup)
            pricing == calculate_full_pricing(analysis.geometry.volume_cm3,
                                              analysis.complexity_score,
                                              analysis.geometry.bounding_box,
                                              "PLA", None, pup)
        IN  IF analysis.raised
            THEN [NoAnalysis EXCEPT !.status = 500, !.file_path = file_path,
                                    !.load_attempted = TRUE,
                                    !.warned = analysis.warned]
            ELSE [status |-> 200,
                  file_path |-> file_path,
                  load_attempted |-> TRUE,
                  warned |-> analysis.warned,
                  file_hash |-> analysis.file_hash,
                  volume_cm3 |-> analysis.geometry.volume_cm3,
                  surface_area_cm2 |-> analysis.geometry.surface_area_cm2,
                  bounding_box |-> analysis.geometry.bounding_box,
                  mass_g |-> pricing.mass_g,
                  triangle_count |-> analysis.quality.triangle_count,
                  is_watertight |-> analysis.quality.is_watertight,
                  shell_count |-> analysis.quality.shell_count,
                  complexity_score |-> analysis.complexity_score,
                  est_material_cost |-> pricing.material_cost_usd,
                  est_print_time_hours |-> pricing.est_print_time_hours,
                  recommended_layer_height |-> pricing.recommended_settings.layer_height_mm,
                  recommended_infill |-> pricing.recommended_settings.infill_percentage,
                  preview_image_path |-> analysis.preview_image_path]

\* A client: what it uploaded, the path /upload answered, and the response of
\* its /analyze request.
NoClient ==
    [step |-> "start", username |-> "", filename |-> << >>, content |-> "",
     path |-> << >>, analysis |-> NoAnalysis]

(***************************************************************************)
(* UserStore                                                               *)
(***************************************************************************)
Usernames == {"demo", "ann", "bob"}

free_limit == 5

NoUser ==
    [registered |-> FALSE, subscription_tier |-> "free", cards_generated_this_month |-> 0]
NewUser ==
    [registered |-> TRUE, subscription_tier |-> "free", cards_generated_this_month |-> 0]

\* UserStore.__init__: the demo user only.
InitialUsers == [u \in Usernames |-> IF u = "demo" THEN NewUser ELSE NoUser]

create_user(store, username) == [store EXCEPT ![username] = NewUser]

increment_card_count(store, username) ==
    IF store[username].registered
    THEN [store EXCEPT ![username].cards_generated_this_month = @ + 1]
    ELSE store

\* Mutant: the limit is tested with > for >=.
can_generate_card_past_limit(store, username) ==
    IF ~store[username].registered THEN [ok |-> FALSE, reason |-> "User not found"]
    ELSE IF store[username].subscription_tier = "paid"
    THEN [ok |-> TRUE, reason |-> "Unlimited access"]
    ELSE IF store[username].cards_generated_this_month > free_limit
    THEN [ok |-> FALSE, reason |-> "Free tier limit reached"]
    ELSE [ok |-> TRUE, reason |-> "Free tier"]

can_generate_card(store, username) ==
    IF ~store[username].registered THEN [ok |-> FALSE, reason |-> "User not found"]
    ELSE IF store[username].subscription_tier = "paid"
    THEN [ok |-> TRUE, reason |-> "Unlimited access"]
    ELSE IF store[username].cards_generated_this_month >= free_limit
    THEN [ok |-> FALSE, reason |-> "Free tier limit reached"]
    ELSE [ok |-> TRUE, reason |-> "Free tier"]

\* card_generator.generate_card writes the card and returns its path, or raises.
CardGeneratorOutcomes == {"written", "raises"}

CardFormats == {"markdown", "json", "pdf", "PDF"}

\* str.lower() on the formats of the domain.
LowerFormat(format) == IF format = "PDF" THEN "pdf" ELSE format

NoResponse == [endpoint |-> "", username |-> "", status |-> 0, detail |-> "",
               format |-> "", card_written |-> FALSE]

\* Mutant: the count is incremented before the card is generated.
generate_card_count_first(store, username, format, outcome) ==
    LET can == can_generate_card(store, username)
        counted == increment_card_count(store, username)
    IN  IF ~can.ok
        THEN [status |-> 403, detail |-> can.reason, store |-> store, card_written |-> FALSE]
        ELSE IF LowerFormat(format) = "pdf" /\ store[username].subscription_tier # "paid"
        THEN [status |-> 403, detail |-> "PDF export is only available for paid tier users",
              store |-> store, card_written |-> FALSE]
        ELSE IF outcome = "raises"
        THEN [status |-> 500, detail |-> "Card generation failed",
              store |-> counted, card_written |-> FALSE]
        ELSE [status |-> 200, detail |-> can_generate_card(counted, username).reason,
              store |-> counted, card_written |-> TRUE]

\* POST /generate-card for an authenticated user: the response and the store
\* it leaves.
generate_card(store, username, format, outcome) ==
    LET can == can_generate_card(store, username)
        counted == increment_card_count(store, username)
    IN  IF ~can.ok
        THEN [status |-> 403, detail |-> can.reason, store |-> store, card_written |-> FALSE]
        ELSE IF LowerFormat(format) = "pdf" /\ store[username].subscription_tier # "paid"
        THEN [status |-> 403, detail |-> "PDF export is only available for paid tier users",
              store |-> store, card_written |-> FALSE]
        ELSE IF outcome = "raises"
        THEN [status |-> 500, detail |-> "Card generation failed",
              store |-> store, card_written |-> FALSE]
        ELSE [status |-> 200, detail |-> can_generate_card(counted, username).reason,
              store |-> counted, card_written |-> TRUE]

\* The endpoints at rest: empty directories, no request yet, the initial store.
ServiceIdle ==
    /\ files = NoFiles
    /\ clients = [c \in Clients |-> NoClient]
    /\ users = InitialUsers
    /\ sessions = {}
    /\ response = NoResponse

(***************************************************************************)
(* analyzer.analyze_model on a loaded mesh, step by step, followed by the  *)
(* pricing call of the /analyze endpoint.                                  *)
(***************************************************************************)
Init ==
    /\ pc = "extract_geometry"
    /\ mesh \in Meshes
    /\ geometry = NoGeometry
    /\ quality = NoQuality
    /\ complexity_score = 0
    /\ args = NoArgs
    /\ settings = NoSettings
    /\ infill_percentage = 0
    /\ mass_g = 0
    /\ material_cost = 0
    /\ print_time = 0
    /\ ServiceIdle

ExtractGeometry ==
    /\ pc = "extract_geometry"
    /\ \E up \in GeometryTies : geometry' = extract_geometry(mesh, up)
    /\ pc' = "analyze_mesh_quality"
    /\ UNCHANGED <<mesh, quality, complexity_score>>
    /\ UNCHANGED pricing_vars
    /\ UNCHANGED service_vars

AnalyzeMeshQuality ==
    /\ pc = "analyze_mesh_quality"
    /\ quality' = analyze_mesh_quality(mesh)
    /\ pc' = "compute_complexity_score"
    /\ UNCHANGED <<mesh, geometry, complexity_score>>
    /\ UNCHANGED pricing_vars
    /\ UNCHANGED service_vars

ComputeComplexityScore ==
    /\ pc = "compute_complexity_score"
    /\ complexity_score' = compute_complexity_score(mesh, geometry)
    /\ pc' = "analyzed"
    /\ UNCHANGED <<mesh, geometry, quality>>
    /\ UNCHANGED pricing_vars
    /\ UNCHANGED service_vars

\* main.analyze_model calls calculate_full_pricing with the analysis results,
\* the default material and no explicit infill.
AnalyzePricingCall ==
    /\ pc = "analyzed"
    /\ args' = [volume_cm3 |-> geometry.volume_cm3,
                complexity_score |-> complexity_score,
                bounding_box |-> geometry.bounding_box,
                material |-> "PLA",
                infill_percentage |-> None]
    /\ pc' = "get_recommended_settings"
    /\ UNCHANGED analysis_vars
    /\ UNCHANGED service_vars
    /\ UNCHANGED <<settings, infill_percentage, mass_g, material_cost, print_time>>

(***************************************************************************)
(* calculate_full_pricing, step by step.                                   *)
(***************************************************************************)
\* Mutant: without an explicit infill the engine falls back to a fixed 20 %.
GetRecommendedSettings_fixed_infill ==
    /\ pc = "get_recommended_settings"
    /\ settings' = get_recommended_settings(args.complexity_score, args.bounding_box)
    /\ infill_percentage' = IF args.infill_percentage = None
                            THEN 20
                            ELSE args.infill_percentage[1]
    /\ pc' = "calculate_mass"
    /\ UNCHANGED analysis_vars
    /\ UNCHANGED service_vars
    /\ UNCHANGED <<args, mass_g, material_cost, print_time>>

\* Mutant: an explicit infill is written into the returned settings.
GetRecommendedSettings_settings_follow ==
    /\ pc = "get_recommended_settings"
    /\ infill_percentage' =
          IF args.infill_percentage = None
          THEN get_recommended_settings(args.complexity_score,
                                        args.bounding_box).infill_percentage
          ELSE args.infill_percentage[1]
    /\ settings' = [get_recommended_settings(args.complexity_score, args.bounding_box)
                       EXCEPT !.infill_percentage = infill_percentage']
    /\ pc' = "calculate_mass"
    /\ UNCHANGED analysis_vars
    /\ UNCHANGED service_vars
    /\ UNCHANGED <<args, mass_g, material_cost, print_time>>

GetRecommendedSettings ==
    /\ pc = "get_recommended_settings"
    /\ settings' = get_recommended_settings(args.complexity_score, args.bounding_box)
    /\ infill_percentage' = IF args.infill_percentage = None
                            THEN settings'.infill_percentage
                            ELSE args.infill_percentage[1]
    /\ pc' = "calculate_mass"
    /\ UNCHANGED analysis_vars
    /\ UNCHANGED service_vars
    /\ UNCHANGED <<args, mass_g, material_cost, print_time>>

CalculateMass ==
    /\ pc = "calculate_mass"
    /\ \E up \in BOOLEAN :
          mass_g' = calculate_mass(args.volume_cm3, args.material, infill_percentage, up)
    /\ pc' = "calculate_material_cost"
    /\ UNCHANGED analysis_vars
    /\ UNCHANGED service_vars
    /\ UNCHANGED <<args, settings, infill_percentage, material_cost, print_time>>

CalculateMaterialCost ==
    /\ pc = "calculate_material_cost"
    /\ \E up \in BOOLEAN :
          material_cost' = calculate_material_cost(mass_g, args.material, up)
    /\ pc' = "estimate_print_time"
    /\ UNCHANGED analysis_vars
    /\ UNCHANGED service_vars
    /\ UNCHANGED <<args, settings, infill_percentage, mass_g, print_time>>

EstimatePrintTime ==
    /\ pc = "estimate_print_time"
    /\ \E up \in BOOLEAN :
          print_time' = estimate_print_time(args.volume_cm3, args.complexity_score,
                                            infill_percentage, up)
    /\ pc' = "done"
    /\ UNCHANGED analysis_vars
    /\ UNCHANGED service_vars
    /\ UNCHANGED <<args, settings, infill_percentage, mass_g, material_cost>>

Next ==
    \/ ExtractGeometry
    \/ AnalyzeMeshQuality
    \/ ComputeComplexityScore
    \/ AnalyzePricingCall
    \/ GetRecommendedSettings
    \/ CalculateMass
    \/ CalculateMaterialCost
    \/ EstimatePrintTime

Spec == Init /\ [][Next]_vars

(***************************************************************************)
(* The pricing engine called directly: any volume, score, bounding box,    *)
(* material name and optional infill.                                      *)
(***************************************************************************)
InitPricing ==
    /\ pc = "get_recommended_settings"
    /\ mesh = NoMesh
    /\ geometry = NoGeometry
    /\ quality = NoQuality
    /\ complexity_score = 0
    /\ args \in PricingArgs
    /\ settings = NoSettings
    /\ infill_percentage = 0
    /\ mass_g = 0
    /\ material_cost = 0
    /\ print_time = 0
    /\ ServiceIdle

NextPricing ==
    \/ GetRecommendedSettings
    \/ CalculateMass
    \/ CalculateMaterialCost
    \/ EstimatePrintTime

SpecPricing == InitPricing /\ [][NextPricing]_vars

(***************************************************************************)
(* The file endpoints: POST /upload and POST /analyze, for two clients     *)
(* holding tokens.  A handler is an async function without an await: the   *)
(* event loop runs it from beginning to end before it serves the next      *)
(* request, so the handlers of different requests interleave as wholes.    *)
(***************************************************************************)
PipelineIdle ==
    /\ pc = "idle"
    /\ mesh = NoMesh
    /\ geometry = NoGeometry
    /\ quality = NoQuality
    /\ complexity_score = 0
    /\ args = NoArgs
    /\ settings = NoSettings
    /\ infill_percentage = 0
    /\ mass_g = 0
    /\ material_cost = 0
    /\ print_time = 0

pipeline_vars == <<pc, mesh, geometry, quality, complexity_score,
                   args, settings, infill_percentage, mass_g, material_cost, print_time>>

InitApi ==
    /\ PipelineIdle
    /\ files = NoFiles
    /\ clients = [c \in Clients |-> NoClient]
    /\ users = [u \in Usernames |-> IF u \in ApiUsers THEN NewUser ELSE NoUser]
    /\ sessions = ApiUsers
    /\ response = NoResponse

\* upload_file: the suffix is checked, then the file is written under the
\* user's name and the file's name.
UploadFile(c) ==
    /\ clients[c].step = "start"
    /\ \E username \in ApiUsers \cap sessions, filename \in Filenames,
          content \in FileContents :
          IF Lower(Suffix(filename)) \notin supported_formats
          THEN /\ clients' = [clients EXCEPT ![c] =
                                 [NoClient EXCEPT !.step = "rejected",
                                                  !.username = username,
                                                  !.filename = filename,
                                                  !.content = content]]
               /\ UNCHANGED files
          ELSE /\ files' = [files EXCEPT ![UploadPath(username, filename)] = content]
               /\ clients' = [clients EXCEPT ![c] =
                                 [NoClient EXCEPT !.step = "uploaded",
                                                  !.username = username,
                                                  !.filename = filename,
                                                  !.content = content,
                                                  !.path = UploadPath(username, filename)]]
    /\ UNCHANGED <<users, sessions, response>>
    /\ UNCHANGED pipeline_vars

\* analyze_model (the endpoint): any path may be sent; the file must exist.
\* A rendered preview is written into the output directory.
AnalyzeModel(c) ==
    /\ clients[c].step = "uploaded"
    /\ \E file_path \in Paths, renders \in BOOLEAN, up \in BOOLEAN :
          LET answer == AnalyzeResponse(file_path, files, renders,
                                        [i \in 1..5 |-> up], [i \in 1..3 |-> up])
          IN  /\ clients' = [clients EXCEPT ![c].step = "analyzed",
                                            ![c].analysis = answer]
              /\ files' = IF answer.preview_image_path = None
                          THEN files
                          ELSE [files EXCEPT ![answer.preview_image_path[1]] = PngContent]
    /\ UNCHANGED <<users, sessions, response>>
    /\ UNCHANGED pipeline_vars

NextApi == \E c \in Clients : UploadFile(c) \/ AnalyzeModel(c)

SpecApi == InitApi /\ [][NextApi]_vars

(***************************************************************************)
(* The account endpoints: POST /auth/register, POST /auth/login and        *)
(* POST /generate-card, each handler run as a whole (none has an await     *)
(* between its check of the quota and its increment of the count).         *)
(***************************************************************************)
InitCards ==
    /\ PipelineIdle
    /\ ServiceIdle

\* Mutant: a taken name is registered anew, which starts its count again at 0.
Register_overwrite(username) ==
    /\ users' = create_user(users, username)
    /\ sessions' = sessions \cup {username}
    /\ response' = [NoResponse EXCEPT !.endpoint = "register",
                                      !.username = username,
                                      !.status = 200]
    /\ UNCHANGED <<files, clients>>
    /\ UNCHANGED pipeline_vars

\* register: 400 when the name is taken, else the user is created and a token
\* issued.
Register(username) ==
    /\ IF users[username].registered
       THEN /\ response' = [NoResponse EXCEPT !.endpoint = "register",
                                              !.username = username,
                                              !.status = 400,
                                              !.detail = "Username already exists"]
            /\ UNCHANGED <<users, sessions>>
       ELSE /\ users' = create_user(users, username)
            /\ sessions' = sessions \cup {username}
            /\ response' = [NoResponse EXCEPT !.endpoint = "register",
                                              !.username = username,
                                              !.status = 200]
    /\ UNCHANGED <<files, clients>>
    /\ UNCHANGED pipeline_vars

\* login: 401 for an unknown user or a wrong password, else a token is issued.
Login(username, password_ok) ==
    /\ IF ~users[username].registered \/ ~password_ok
       THEN /\ response' = [NoResponse EXCEPT !.endpoint = "login",
                                              !.username = username,
                                              !.status = 401,
                                              !.detail = "Incorrect username or password"]
            /\ UNCHANGED sessions
       ELSE /\ sessions' = sessions \cup {username}
            /\ response' = [NoResponse EXCEPT !.endpoint = "login",
                                              !.username = username,
                                              !.status = 200]
    /\ UNCHANGED <<users, files, clients>>
    /\ UNCHANGED pipeline_vars

\* generate_card (the endpoint): 401 without a token of an existing user.
GenerateCard(username, format, outcome) ==
    /\ IF username \notin sessions \/ ~users[username].registered
       THEN /\ response' = [NoResponse EXCEPT !.endpoint = "generate-card",
                                              !.username = username,
                                              !.status = 401,
                                              !.detail = "Invalid authentication credentials",
                                              !.format = format]
            /\ UNCHANGED users
       ELSE LET answer == generate_card(users, username, format, outcome)
            IN  /\ users' = answer.store
                /\ response' = [endpoint |-> "generate-card",
                                username |-> username,
                                status |-> answer.status,
                                detail |-> answer.detail,
                                format |-> format,
                                card_written |-> answer.card_written]
    /\ UNCHANGED <<sessions, files, clients>>
    /\ UNCHANGED pipeline_vars

NextCards ==
    \/ \E username \in Usernames : Register(username)
    \/ \E username \in Usernames, password_ok \in BOOLEAN : Login(username, password_ok)
    \/ \E username \in Usernames, format \in CardFormats,
          outcome \in CardGeneratorOutcomes : GenerateCard(username, format, outcome)

SpecCards == InitCards /\ [][NextCards]_vars

(***************************************************************************)
(* Properties of the complexity score (specification Spec).                *)
(***************************************************************************)
Analyzed == pc = "analyzed"

\* The inputs the score is specified for: counts, extents, area and volume >= 0,
\* at least one shell.
ValidMetrics ==
    /\ quality.triangle_count >= 0
    /\ quality.shell_count >= 1
    /\ \A i \in 1..3 : geometry.bounding_box[i] >= 0
    /\ geometry.surface_area_cm2 >= 0
    /\ geometry.volume_cm3 >= 0

\* C1: for every triangle count >= 0, shell count >= 1, watertight flag, bounding
\* box with extents >= 0, surface area >= 0 and volume >= 0, the complexity score
\* is an integer between 0 and 10.
C1_ScoreInRange ==
    (Analyzed /\ ValidMetrics) => complexity_score \in 0..10

\* A degenerate part (zero volume, a zero extent) whose score reaches the cap.
C1_Witness ==
    /\ Analyzed
    /\ ValidMetrics
    /\ geometry.volume_cm3 = 0
    /\ MinOf(geometry.bounding_box) = 0
    /\ complexity_score = 10

\* The number of the thresholds t1 < t2 that num/den lies strictly above.
TiersAbove(num, den, t1, t2) ==
    (IF num > t1 * den THEN 1 ELSE 0) + (IF num > t2 * den THEN 1 ELSE 0)

TableDensity == TiersAbove(100 * quality.triangle_count,
                           Max2(geometry.volume_cm3, 100), 500, 1000)
TableShells == (IF quality.shell_count > 1 THEN 1 ELSE 0)
               + (IF quality.shell_count > 3 THEN 1 ELSE 0)
TableAspect == TiersAbove(MaxOf(geometry.bounding_box),
                          Max2(MinOf(geometry.bounding_box), 10), 5, 10)
TableWatertight == IF quality.is_watertight THEN 0 ELSE 2
TableSaVol == TiersAbove(geometry.surface_area_cm2,
                         Max2(geometry.volume_cm3, 10), 25, 50)
TableSum == TableDensity + TableShells + TableAspect + TableWatertight + TableSaVol

\* C2: the score of the reported metrics is min(10, sum of the five table
\* contributions); every tier is earned only strictly above its threshold.
C2_ScoreIsTable ==
    Analyzed => complexity_score = Min2(10, TableSum)

\* Every ratio measure sits exactly on its upper threshold (density 1000, aspect
\* ratio 10, surface/volume 50, three shells): each earns the +1 tier only.
C2_Witness ==
    /\ Analyzed
    /\ quality.is_watertight
    /\ 100 * quality.triangle_count = 1000 * Max2(geometry.volume_cm3, 100)
    /\ quality.shell_count = 3
    /\ MaxOf(geometry.bounding_box) = 10 * Max2(MinOf(geometry.bounding_box), 10)
    /\ geometry.surface_area_cm2 = 50 * Max2(geometry.volume_cm3, 10)
    /\ complexity_score = 4

\* The measures of two parts compared as exact ratios.
DensityLeq(f1, v1, f2, v2) == f1 * Max2(v2, 100) <= f2 * Max2(v1, 100)
SaVolLeq(a1, v1, a2, v2) == a1 * Max2(v2, 10) <= a2 * Max2(v1, 10)
AspectLeq(b1, b2) ==
    MaxOf(b1) * Max2(MinOf(b2), 10) <= MaxOf(b2) * Max2(MinOf(b1), 10)

\* The volumes, areas and bounding boxes extract_geometry reports for the meshes.
GeomVolumes == {round2(v, 10, FALSE) : v \in MeshVolumes}
GeomAreas == {round2(a, 10, FALSE) : a \in MeshAreas}
GeomBoxes == {[i \in 1..3 |-> round2(e[i], 10, FALSE)] : e \in MeshExtents}

\* The score of the analysed part with some of its inputs replaced.
ScoreWith(f2, v2, a2) ==
    compute_complexity_score([mesh EXCEPT !.faces = f2],
                             [geometry EXCEPT !.volume_cm3 = v2, !.surface_area_cm2 = a2])
ScoreWithShells(s2) == compute_complexity_score([mesh EXCEPT !.shells = s2], geometry)
ScoreWithBox(b2) == compute_complexity_score(mesh, [geometry EXCEPT !.bounding_box = b2])
ScoreWithWatertight(w2) ==
    compute_complexity_score([mesh EXCEPT !.is_watertight = w2], geometry)

\* Compared with the analysed part, a part with f2 faces, volume v2 and area a2
\* has the same surface/volume ratio and a triangle density at least as high.
DensityRaised(f2, v2, a2) ==
    /\ SaVolLeq(geometry.surface_area_cm2, geometry.volume_cm3, a2, v2)
    /\ SaVolLeq(a2, v2, geometry.surface_area_cm2, geometry.volume_cm3)
    /\ DensityLeq(mesh.faces, geometry.volume_cm3, f2, v2)

\* ... the same triangle density and a surface/volume ratio at least as high.
SaVolRaised(f2, v2, a2) ==
    /\ DensityLeq(mesh.faces, geometry.volume_cm3, f2, v2)
    /\ DensityLeq(f2, v2, mesh.faces, geometry.volume_cm3)
    /\ SaVolLeq(geometry.surface_area_cm2, geometry.volume_cm3, a2, v2)

\* C3: raising one of the five measures (triangle density, shell count, aspect
\* ratio, non-watertightness, surface/volume ratio) while the other four keep
\* their values never lowers the score.
C3_Monotone ==
    Analyzed =>
        /\ \A f2 \in MeshFaces, v2 \in GeomVolumes, a2 \in GeomAreas :
              (DensityRaised(f2, v2, a2) \/ SaVolRaised(f2, v2, a2))
                  => ScoreWith(f2, v2, a2) >= complexity_score
        /\ \A s2 \in MeshShells :
              s2 >= mesh.shells => ScoreWithShells(s2) >= complexity_score
        /\ \A b2 \in GeomBoxes :
              AspectLeq(geometry.bounding_box, b2) => ScoreWithBox(b2) >= complexity_score
        /\ mesh.is_watertight => ScoreWithWatertight(FALSE) >= complexity_score

\* A part for which a part of another volume has the same surface/volume ratio,
\* a strictly higher triangle density and a strictly higher score.
C3_Witness ==
    /\ Analyzed
    /\ \E f2 \in MeshFaces, v2 \in GeomVolumes, a2 \in GeomAreas :
          /\ geometry.volume_cm3 > 0 /\ geometry.surface_area_cm2 > 0
          /\ v2 > 0 /\ v2 # geometry.volume_cm3
          /\ DensityRaised(f2, v2, a2)
          /\ ~DensityLeq(f2, v2, mesh.faces, geometry.volume_cm3)
          /\ ScoreWith(f2, v2, a2) > complexity_score

\* C4: a non-watertight mesh scores exactly 2 more than the same mesh reported
\* watertight, whatever the other four factors are.
C4_NonWatertightAddsTwo ==
    Analyzed =>
        LET closed == ScoreWithWatertight(TRUE)
            open == ScoreWithWatertight(FALSE)
        IN  /\ open = closed + 2
            /\ complexity_score = IF mesh.is_watertight THEN closed ELSE open

\* A non-watertight mesh with the other four factors at their top tier: 8 + 2.
C4_Witness ==
    /\ Analyzed
    /\ ~quality.is_watertight
    /\ TableDensity = 2 /\ TableShells = 2 /\ TableAspect = 2 /\ TableSaVol = 2
    /\ complexity_score = 10

\* The box of create_test_stl.py with the triangle count of the worked example.
C5_Box == BoxMesh(50, 30, 20, 2000)

\* C5 as stated: the 50 x 30 x 20 mm box (about 2000 triangles, 30 cm3) scores 1,
\* the surface/volume +1 tier being the only one that applies.
C5_Original ==
    (Analyzed /\ mesh = C5_Box) =>
        /\ complexity_score = 1
        /\ TableSaVol = 1
        /\ TableDensity = 0 /\ TableShells = 0 /\ TableAspect = 0 /\ TableWatertight = 0

\* C5 amended: the box (with about 2000 triangles, or the 12 the library gives it)
\* has volume 30 cm3 and surface area 62 cm2, so a surface/volume ratio of about
\* 2.07 and a triangle density of at most about 66.7: no tier applies, score 0.
C5_BoxScoresZero ==
    (Analyzed /\ mesh \in {C5_Box, test_part}) =>
        /\ geometry.volume_cm3 = 3000
        /\ geometry.surface_area_cm2 = 6200
        /\ 206 * geometry.volume_cm3 <= 100 * geometry.surface_area_cm2
        /\ 100 * geometry.surface_area_cm2 <= 207 * geometry.volume_cm3
        /\ 100 * 100 * quality.triangle_count <= 6667 * geometry.volume_cm3
        /\ mesh = C5_Box => 100 * 100 * quality.triangle_count >= 6666 * geometry.volume_cm3
        /\ TableSum = 0
        /\ complexity_score = 0

C5_Witness ==
    /\ Analyzed
    /\ mesh = C5_Box
    /\ quality.triangle_count = 2000
    /\ geometry.bounding_box = <<5000, 3000, 2000>>
    /\ complexity_score = 0

(***************************************************************************)
(* Properties of the pricing engine (specification SpecPricing).           *)
(***************************************************************************)
MassComputed == pc = "calculate_material_cost"
CostComputed == pc = "estimate_print_time"
TimeComputed == pc = "done"

\* The density table as the specification gives it, by exact name.
TableDensityOf(material) ==
    CASE material = "PLA"   -> 124
      [] material = "ABS"   -> 104
      [] material = "PETG"  -> 127
      [] material = "TPU"   -> 121
      [] material = "Nylon" -> 114
      [] material = "ASA"   -> 107
      [] OTHER              -> 124

\* C6: mass_g is volume x density x (0.3 + 0.7 x infill/100) rounded to the
\* nearest hundredth, with the table density for PLA, ABS, PETG, TPU, Nylon, ASA
\* (exact name) and the default density otherwise; for infill 0..100 the
\* unrounded mass lies between 0.3 x density x volume and density x volume.
C6_MassFormula ==
    MassComputed =>
        LET v == args.volume_cm3
            d == TableDensityOf(args.material)
            exact == v * d * (300 + 7 * infill_percentage)
        IN  /\ 2 * Abs(100000 * mass_g - exact) <= 100000
            /\ infill_percentage \in 0..100 =>
                  IF v >= 0
                  THEN 300 * d * v <= exact /\ exact <= 1000 * d * v
                  ELSE 1000 * d * v <= exact /\ exact <= 300 * d * v

\* A name that differs from a table name only in case gets the default density:
\* 45.2 cm3 at infill 100 weighs 45.2 x 1.24 = 56.05 g.
C6_Witness ==
    /\ MassComputed
    /\ args.material = "abs"
    /\ args.volume_cm3 = 4520
    /\ infill_percentage = 100
    /\ mass_g = 5605

\* C7 as stated: calculate_mass(2v, m, i) is exactly 2 x calculate_mass(v, m, i),
\* here for the positive volumes.
C7_Original ==
    (MassComputed /\ args.volume_cm3 > 0) =>
        \A up \in BOOLEAN :
            calculate_mass(2 * args.volume_cm3, args.material, infill_percentage, up)
                = 2 * mass_g

\* C7 amended: the unrounded mass of twice the volume is exactly twice the
\* unrounded mass; after the rounding to 2 decimals calculate_mass(2v, m, i)
\* and 2 x calculate_mass(v, m, i) differ by at most 0.01 g.
C7_DoublingWithinRounding ==
    MassComputed =>
        /\ UnroundedMass(2 * args.volume_cm3, args.material, infill_percentage)
               = 2 * UnroundedMass(args.volume_cm3, args.material, infill_percentage)
        /\ \A up \in BOOLEAN :
              Abs(calculate_mass(2 * args.volume_cm3, args.material, infill_percentage, up)
                      - 2 * mass_g) <= 1

\* A positive volume whose doubled mass is 0.01 g short of twice its mass.
C7_Witness ==
    /\ MassComputed
    /\ args.volume_cm3 > 0
    /\ mass_g > 0
    /\ \A up \in BOOLEAN :
          calculate_mass(2 * args.volume_cm3, args.material, infill_percentage, up)
              = 2 * mass_g - 1

\* C8 as stated: for a positive volume the print time is strictly increasing in
\* the score (0..10) and in the infill (0..100).
C8_Original ==
    (TimeComputed /\ args.volume_cm3 > 0 /\ infill_percentage \in 0..100) =>
        /\ \A s2 \in (args.complexity_score + 1)..10 : \A up \in BOOLEAN :
              estimate_print_time(args.volume_cm3, s2, infill_percentage, up) > print_time
        /\ \A i2 \in (infill_percentage + 1)..100 : \A up \in BOOLEAN :
              estimate_print_time(args.volume_cm3, args.complexity_score, i2, up) > print_time

\* C8 amended: for a positive volume the print time never decreases when the
\* score (0..10) or the infill (0..100) increases, and the time before the
\* rounding to 2 decimals increases strictly.
C8_NonDecreasing ==
    (TimeComputed /\ args.volume_cm3 > 0 /\ infill_percentage \in 0..100) =>
        LET v == args.volume_cm3
            s == args.complexity_score
            i == infill_percentage
        IN  /\ \A s2 \in (s + 1)..10 :
                  /\ UnroundedTime(v, s2, i) > UnroundedTime(v, s, i)
                  /\ \A up \in BOOLEAN : estimate_print_time(v, s2, i, up) >= print_time
            /\ \A i2 \in (i + 1)..100 :
                  /\ UnroundedTime(v, s, i2) > UnroundedTime(v, s, i)
                  /\ \A up \in BOOLEAN : estimate_print_time(v, s, i2, up) >= print_time

\* A positive volume so small that every score and every infill give 0.0 hours.
C8_Witness ==
    /\ TimeComputed
    /\ args.volume_cm3 > 0
    /\ args.complexity_score = 0
    /\ infill_percentage = 0
    /\ print_time = 0
    /\ \A up \in BOOLEAN : estimate_print_time(args.volume_cm3, 10, 100, up) = 0

\* C9: the print time is (volume / print speed) x (1 + score/10) x
\* (0.8 + (infill/100) x 0.4) rounded to the nearest hundredth; the complexity
\* multiplier lies in [1.0, 2.0] for scores 0..10, the infill multiplier in
\* [0.8, 1.2] for infill 0..100.
C9_TimeFormula ==
    TimeComputed =>
        LET v == args.volume_cm3
            s == args.complexity_score
            i == infill_percentage
            exact == v * (10 + s) * (200 + i)
        IN  /\ 2 * Abs(2500 * 20 * print_time - exact) <= 2500 * 20
            /\ s \in 0..10 => ComplexityMultiplier(s) \in 10..20
            /\ i \in 0..100 => InfillMultiplier(i) \in 200..300

\* 45.2 cm3 at score 10 and infill 100: 2.26 x 2.0 x 1.2 = 5.42 hours.
C9_Witness ==
    /\ TimeComputed
    /\ args.volume_cm3 = 4520
    /\ args.complexity_score = 10
    /\ infill_percentage = 100
    /\ ComplexityMultiplier(args.complexity_score) = 20
    /\ InfillMultiplier(infill_percentage) = 300
    /\ print_time = 542

UnknownMaterial == args.material \notin {"PLA", "ABS", "PETG", "TPU", "Nylon", "ASA"}

\* What C10 says of the mass and the cost before it speaks of the sign: the mass
\* is rounded from volume x 1.24 x (0.3 + 0.7 x infill/100), the cost from the
\* rounded mass x 0.02.
C10_DefaultProfile ==
    /\ 2 * Abs(100000 * mass_g
                   - args.volume_cm3 * 124 * (300 + 7 * infill_percentage)) <= 100000
    /\ 2 * Abs(1000 * material_cost - mass_g * 20) <= 1000

\* C10 as stated: with an unknown material, the cost of every part of positive
\* volume follows the default profile and is strictly positive.
C10_Original ==
    (CostComputed /\ UnknownMaterial /\ args.volume_cm3 > 0
        /\ infill_percentage \in 0..100) =>
        /\ C10_DefaultProfile
        /\ material_cost > 0

\* C10 amended: with an unknown material, the cost of every part of positive
\* volume follows the default profile and is never negative; it is strictly
\* positive when mass_g x cost-per-gram exceeds 0.005 USD (mass_g > 0.25 g).
C10_NonNegativeCost ==
    (CostComputed /\ UnknownMaterial /\ args.volume_cm3 > 0
        /\ infill_percentage \in 0..100) =>
        /\ C10_DefaultProfile
        /\ material_cost >= 0
        /\ mass_g > 25 => material_cost > 0

\* An unknown material priced without an explicit infill: 45.2 cm3 at the
\* recommended infill 20 weighs 24.66 g and costs 0.49 USD.
C10_Witness ==
    /\ CostComputed
    /\ args.material = "Resin"
    /\ args.infill_percentage = None
    /\ args.volume_cm3 = 4520
    /\ infill_percentage = 20
    /\ mass_g = 2466
    /\ material_cost = 49

(***************************************************************************)
(* Properties of the recommended settings and of calculate_full_pricing    *)
(* (specification SpecPricing).                                            *)
(***************************************************************************)
SettingsComputed ==
    pc \in {"calculate_mass", "calculate_material_cost", "estimate_print_time", "done"}

\* C11: the recommended infill is 25 when some extent of the bounding box
\* exceeds 200 mm or the score is at least 7, and 20 otherwise; no other
\* value is ever recommended.
C11_InfillRule ==
    SettingsComputed =>
        LET box == args.bounding_box
            large == \E k \in 1..3 : box[k] > 20000
        IN  /\ settings.infill_percentage \in {20, 25}
            /\ settings.infill_percentage = 25 <=> (large \/ args.complexity_score >= 7)

\* A part whose largest extent is exactly 200 mm, at score 6: infill 20.
C11_Witness ==
    /\ pc = "calculate_mass"
    /\ MaxOf(args.bounding_box) = 20000
    /\ args.complexity_score = 6
    /\ settings.infill_percentage = 20

\* C12: when the caller supplies no infill, the mass and the print time are
\* computed with the infill reported in recommended_settings.
C12_RecommendedInfillUsed ==
    (TimeComputed /\ args.infill_percentage = None) =>
        LET i == settings.infill_percentage
        IN  /\ infill_percentage = i
            /\ 2 * Abs(100000 * mass_g
                           - args.volume_cm3 * TableDensityOf(args.material) * (300 + 7 * i))
                   <= 100000
            /\ 2 * Abs(2500 * 20 * print_time
                           - args.volume_cm3 * (10 + args.complexity_score) * (200 + i))
                   <= 2500 * 20

\* 45.2 cm3 of PLA at score 7 without an explicit infill: the recommended 25 %
\* gives 26.62 g and 3.46 hours (20 % would give 24.66 g and 3.38 hours).
C12_Witness ==
    /\ TimeComputed
    /\ args.infill_percentage = None
    /\ args.volume_cm3 = 4520
    /\ args.material = "PLA"
    /\ args.complexity_score = 7
    /\ settings.infill_percentage = 25
    /\ mass_g = 2662
    /\ print_time = 346

\* C13: supports_needed is true exactly when z / max(x, y, 1 mm) > 2 or the
\* score is at least 6; when x and y are both below 1 mm the part is judged by
\* z > 2 mm alone, and a ratio of exactly 2 at score <= 5 gives false.
C13_SupportsRule ==
    SettingsComputed =>
        LET box == args.bounding_box
            s == args.complexity_score
            floor == IF box[1] >= 100 \/ box[2] >= 100
                     THEN (IF box[1] >= box[2] THEN box[1] ELSE box[2])
                     ELSE 100
        IN  /\ settings.supports_needed <=> (box[3] > 2 * floor \/ s >= 6)
            /\ (box[1] < 100 /\ box[2] < 100) =>
                   (settings.supports_needed <=> (box[3] > 200 \/ s >= 6))
            /\ (box[3] = 2 * floor /\ s <= 5) => ~settings.supports_needed

\* A 0.5 x 0.5 x 1.5 mm part at score 5: z / 1 = 1.5, no supports (z / 0.5
\* would be 3).
C13_Witness ==
    /\ pc = "calculate_mass"
    /\ args.bounding_box = <<50, 50, 150>>
    /\ args.complexity_score = 5
    /\ ~settings.supports_needed

\* The end-to-end example of C14: 120.5 x 45.3 x 30.2 mm, 45.2 cm3, score 6,
\* default material, no explicit infill.
C14_Example ==
    /\ TimeComputed
    /\ args.volume_cm3 = 4520
    /\ args.complexity_score = 6
    /\ args.bounding_box = <<12050, 4530, 3020>>
    /\ args.material = "PLA"
    /\ args.infill_percentage = None

C15_NoPriceWithoutVolume ==
    \A c \in Clients :
        clients[c].analysis.status = 200 => clients[c].analysis.volume_cm3 > 0

\* C16: the mesh loader is never invoked on a file whose suffix is outside
\* the supported set.
C16_LoaderOnlyOnSupported ==
    \A c \in Clients :
        clients[c].analysis.load_attempted =>
            Lower(Suffix(clients[c].analysis.file_path)) \in {".stl", ".3mf", ".obj", ".ply"}

\* C17: when the preview fails to render, the analysis still answers with the
\* file hash, the geometry, the quality and the score, and with no preview
\* path; the metrics and the score are those of the mesh alone, whether the
\* preview rendered or not.
C17_PreviewFailureHarmless ==
    \A c \in Clients :
        LET a == clients[c].analysis
        IN  /\ a.warned => (a.status = 200 /\ a.preview_image_path = None)
            /\ a.status = 200 =>
                  /\ a.preview_image_path = None <=> a.warned
                  /\ a.preview_image_path # None =>
                        a.preview_image_path = Some(<<"./output", a.file_hash, "_preview", ".png">>)
                  /\ a.file_hash \in DOMAIN MeshOf
                  /\ LET m == MeshOf[a.file_hash]
                         g == [volume_cm3 |-> a.volume_cm3,
                               bounding_box |-> a.bounding_box,
                               surface_area_cm2 |-> a.surface_area_cm2]
                     IN  /\ 2 * Abs(10 * a.volume_cm3 - m.volume) <= 10
                         /\ 2 * Abs(10 * a.surface_area_cm2 - m.area) <= 10
                         /\ \A k \in 1..3 : 2 * Abs(10 * a.bounding_box[k] - m.extents[k]) <= 10
                         /\ a.triangle_count = m.faces
                         /\ a.is_watertight = m.is_watertight
                         /\ a.shell_count = m.shells
                         /\ a.complexity_score = compute_complexity_score(m, g)

\* The test box analysed while the renderer fails: 30 cm3, score 0, no preview.
C17_Witness ==
    \E c \in Clients :
        LET a == clients[c].analysis
        IN  /\ a.warned
            /\ a.status = 200
            /\ a.preview_image_path = None
            /\ a.file_hash = "box"
            /\ a.volume_cm3 = 3000
            /\ a.triangle_count = 12
            /\ a.complexity_score = 0

\* C18: the analysis of the path a request's own upload was answered with is
\* derived from the content that request uploaded: its hash when the content
\* is a mesh, a failure when it is not.
C18_NoInterference ==
    \A c \in Clients :
        LET a == clients[c].analysis
        IN  (clients[c].step = "analyzed" /\ a.file_path = clients[c].path) =>
                IF clients[c].content \in DOMAIN MeshOf
                THEN a.status = 200 /\ a.file_hash = clients[c].content
                ELSE a.status = 500

(***************************************************************************)
(* Properties of the account endpoints (specification SpecCards).          *)
(***************************************************************************)
GenerateCardAnswered == response'.endpoint = "generate-card" /\ response'.status # 401

\* C19: a free-tier user's cards_generated_this_month never exceeds the
\* free-tier limit, and a generate-card request made while the count is at or
\* above the limit is answered 403, writes no card and changes no count.
C19_FreeTierQuota ==
    /\ [](\A u \in Usernames :
             users[u].subscription_tier = "free" =>
                 users[u].cards_generated_this_month <= 5)
    /\ [][(/\ GenerateCardAnswered
           /\ users[response'.username].subscription_tier = "free"
           /\ users[response'.username].cards_generated_this_month >= 5)
             => (/\ response'.status = 403
                 /\ ~response'.card_written
                 /\ users' = users)]_vars

\* A user at the limit of 5 whose request was answered 403.
C19_Witness ==
    /\ response.endpoint = "generate-card"
    /\ response.status = 403
    /\ response.detail = "Free tier limit reached"
    /\ users[response.username].cards_generated_this_month = 5

\* C20: a generate-card request adds exactly 1 to the requesting user's count
\* when the card is generated, changes no count when it is answered 403
\* (quota, or PDF for a user who is not paid) or 500 (the generator raised),
\* and never changes another user's count.
C20_CountAccounting ==
    [][GenerateCardAnswered =>
          LET u == response'.username
              before == users[u].cards_generated_this_month
              after == users'[u].cards_generated_this_month
          IN  /\ response'.status \in {200, 403, 500}
              /\ response'.status = 200 => (response'.card_written /\ after = before + 1)
              /\ response'.status \in {403, 500} =>
                    (~response'.card_written /\ users' = users)
              /\ (response'.format \in {"pdf", "PDF"}
                    /\ users[u].subscription_tier # "paid") => response'.status = 403
              /\ \A v \in Usernames \ {u} : users'[v] = users[v]]_vars

\* ann's third card has just been generated while demo stays at one.
C20_Witness ==
    /\ response.endpoint = "generate-card"
    /\ response.status = 200
    /\ response.card_written
    /\ response.username = "ann"
    /\ users["ann"].cards_generated_this_month = 3
    /\ users["demo"].cards_generated_this_month = 1

\* C21: no step of the user store lowers a cards_generated_this_month or
\* removes a user, every subscription_tier is 'free' in every state, and a
\* count that has reached the free-tier limit stays there, so that every
\* later generate-card request of that user is answered 403.
C21_CountMonotoneTierFree ==
    /\ [](\A u \in Usernames : users[u].subscription_tier = "free")
    /\ [][\A u \in Usernames :
            /\ users'[u].cards_generated_this_month >= users[u].cards_generated_this_month
            /\ users[u].registered => users'[u].registered
            /\ users[u].cards_generated_this_month >= 5 =>
                  /\ users'[u].cards_generated_this_month
                        = users[u].cards_generated_this_month
                  /\ (GenerateCardAnswered /\ response'.username = u) =>
                        (response'.status = 403 /\ ~response'.card_written)]_vars

\* ann and demo have both used their five cards; ann's request for a JSON
\* card has just been refused.
C21_Witness ==
    /\ users["ann"].cards_generated_this_month = 5
    /\ users["demo"].cards_generated_this_month = 5
    /\ response.endpoint = "generate-card"
    /\ response.username = "ann"
    /\ response.format = "json"
    /\ response.status = 403

(***************************************************************************)
(* The clamp of the score (specification Spec).                            *)
(***************************************************************************)
\* The score before min(score, 10).
UnclampedScore ==
    TriDensityPoints(mesh.faces, geometry.volume_cm3)
        + ShellPoints(mesh.shells)
        + AspectPoints(geometry.bounding_box)
        + WatertightPoints(mesh.is_watertight)
        + SaVolPoints(geometry.surface_area_cm2, geometry.volume_cm3)

\* All five factors at their top tier: density > 1000, shells > 3, aspect
\* ratio > 10, not watertight, surface/volume > 50.
AllFactorsTop ==
    /\ 100 * quality.triangle_count > 1000 * Max2(geometry.volume_cm3, 100)
    /\ quality.shell_count > 3
    /\ MaxOf(geometry.bounding_box) > 10 * Max2(MinOf(geometry.bounding_box), 10)
    /\ ~quality.is_watertight
    /\ geometry.surface_area_cm2 > 50 * Max2(geometry.volume_cm3, 10)

\* C22: the sum of the five contributions never exceeds 10, so the clamp
\* changes nothing, and the score is 10 exactly when all five factors are at
\* their top tier.
C22_ClampNeverBinds ==
    Analyzed =>
        /\ UnclampedScore <= 10
        /\ complexity_score = UnclampedScore
        /\ complexity_score = 10 <=> AllFactorsTop

\* A part of 1 cm3 with 2000 triangles, four shells, a 20 x 20 x 210 mm box,
\* leaking, with 62.5 cm2 of surface: every factor at its top, score 10.
C22_Witness ==
    /\ Analyzed
    /\ geometry.volume_cm3 = 100
    /\ quality.triangle_count = 2000
    /\ geometry.surface_area_cm2 > 5000
    /\ AllFactorsTop
    /\ UnclampedScore = 10
    /\ complexity_score = 10

(***************************************************************************)
(* Further properties of calculate_full_pricing (specification             *)
(* SpecPricing).                                                           *)
(***************************************************************************)
\* C23: for every score 0..10 and every bounding box the recommended settings
\* agree with each other: speed 50 exactly when the score is at least 6, and
\* then supports; layer height 0.12 implies infill 25, supports and speed 50;
\* infill 25 on a part of at most 200 mm implies layer height 0.12; a part
\* above 200 mm gets a brim and infill 25.
C23_SettingsConsistent ==
    (SettingsComputed /\ args.complexity_score \in 0..10) =>
        LET large == \E k \in 1..3 : args.bounding_box[k] > 20000
        IN  /\ settings.print_speed_mm_s \in {50, 60}
            /\ settings.print_speed_mm_s = 50 <=> args.complexity_score >= 6
            /\ settings.print_speed_mm_s = 50 => settings.supports_needed
            /\ settings.layer_height_mm = 12 =>
                  /\ settings.infill_percentage = 25
                  /\ settings.supports_needed
                  /\ settings.print_speed_mm_s = 50
            /\ (settings.infill_percentage = 25 /\ ~large) => settings.layer_height_mm = 12
            /\ large => (settings.brim_recommended /\ settings.infill_percentage = 25)

\* A flat 50 x 30 x 20 mm part at score 6: speed 50 and supports by the score
\* alone, layer height 0.16, infill 20.
C23_Witness ==
    /\ pc = "calculate_mass"
    /\ args.complexity_score = 6
    /\ args.bounding_box = <<5000, 3000, 2000>>
    /\ settings.print_speed_mm_s = 50
    /\ settings.supports_needed
    /\ settings.layer_height_mm = 16
    /\ settings.infill_percentage = 20

\* C24: with an explicit infill, the mass and the print time are computed
\* with the explicit value, while recommended_settings is what
\* get_recommended_settings returns for the score and the box: its infill is
\* 20 or 25 whatever the caller passed.
C24_ExplicitInfill ==
    (TimeComputed /\ args.infill_percentage # None) =>
        LET i == args.infill_percentage[1]
            large == \E k \in 1..3 : args.bounding_box[k] > 20000
        IN  /\ infill_percentage = i
            /\ 2 * Abs(100000 * mass_g
                           - args.volume_cm3 * TableDensityOf(args.material) * (300 + 7 * i))
                   <= 100000
            /\ 2 * Abs(2500 * 20 * print_time
                           - args.volume_cm3 * (10 + args.complexity_score) * (200 + i))
                   <= 2500 * 20
            /\ settings = get_recommended_settings(args.complexity_score, args.bounding_box)
            /\ settings.infill_percentage
                   = IF large \/ args.complexity_score >= 7 THEN 25 ELSE 20

\* 45.2 cm3 of PLA at score 6 with an explicit infill of 100: 56.05 g and
\* 4.34 hours, while the returned settings recommend 20.
C24_Witness ==
    /\ TimeComputed
    /\ args.infill_percentage = Some(100)
    /\ args.volume_cm3 = 4520
    /\ args.material = "PLA"
    /\ args.complexity_score = 6
    /\ args.bounding_box = <<12050, 4530, 3020>>
    /\ settings.infill_percentage = 20
    /\ infill_percentage = 100
    /\ mass_g = 5605
    /\ print_time = 434

====
